---- MODULE Spec2Model ----
(***************************************************************************)
(* Model of analytics-engine/consumer.py: a single-threaded Kafka consumer *)
(* that projects every event of the topic 'new_listings' into a Neo4j      *)
(* graph with one write transaction per message.                           *)
(*                                                                         *)
(* The graph store keeps nodes and relationships as multisets (a node is   *)
(* an entity with its own identity, so two nodes may carry the same name); *)
(* a multiset is a function from names to the number of nodes.             *)
(* A write transaction is atomic in the store: Commit either applies all   *)
(* the merges of the transaction or none of them.                          *)
(***************************************************************************)
EXTENDS Integers, Sequences, FiniteSets

\* ---------------------------------------------------------------- bounds
\* Number of records the consumer takes from the topic.
MaxStream == 3
\* Number of times the driver re-runs a transaction function after a
\* transient failure (the driver bounds it by a retry time).
MaxRetries == 1

\* ------------------------------------------------------------ input space
UserNames == {"alice", "bob"}
CategoryNames == {"electronics", "books"}
Keys == {"user", "category"}

\* The JSON objects a payload may decode to: any subset of the two keys the
\* loop reads (other keys are never looked at).
Events ==
    UNION { { [k \in K |-> IF k = "user" THEN u ELSE c] :
                u \in UserNames, c \in CategoryNames } : K \in SUBSET Keys }

\* A record of the topic: a byte payload that is JSON text of an object
\* (json = TRUE, obj = the object) or is not JSON at all.
Payloads ==
    { [json |-> TRUE, obj |-> e] : e \in Events }
        \cup { [json |-> FALSE, obj |-> << >>] }

Event(u, c) == [k \in Keys |-> IF k = "user" THEN u ELSE c]

\* ------------------------------------------------------------------ state
VARIABLES
    stream,     \* the records of the topic fetched so far, in offset order
    position,   \* the consumer's position: offset of the next record it takes
    pc,         \* the statement the process is at
    data,       \* line 37: the decoded value of the current message
    session,    \* number of graph sessions currently open
    exc,        \* exception in flight: "none", "KeyError", "Neo4jError"
    retries,    \* re-runs of the transaction function in this write
    tx,         \* graph as seen by the open transaction (uncommitted)
    graph,      \* the committed content of the graph store
    out,        \* lines printed on the console since the message was taken
    trace,      \* history: one entry per message taken from the iterator
    unreachable \* the services that are down when the process connects

vars == <<stream, position, pc, data, session, exc, retries, tx, graph, out, trace,
          unreachable>>

EmptyGraph ==
    [ users |-> [u \in UserNames |-> 0],
      categories |-> [c \in CategoryNames |-> 0],
      edges |-> [e \in UserNames \X CategoryNames |-> 0] ]

\* value_deserializer (line 20): json.loads(x.decode('utf-8')) returns the
\* object for JSON text and raises for anything else.
Decodes(message) == message.json
value_deserializer(message) == message.obj

\* Faulty variant of MergeNode: CREATE instead of MERGE, a new node on every run.
CreateNode(nodes, name) == [nodes EXCEPT ![name] = @ + 1]

\* MERGE (n:Label {name: $name}): match the nodes with that name, create one
\* only when there is none.
MergeNode(nodes, name) ==
    IF nodes[name] = 0 THEN [nodes EXCEPT ![name] = 1] ELSE nodes

\* Faulty variant of MergeEdge: the category is kept as a single slot of the user,
\* so that a new edge replaces the edges the user already has.
ReplaceEdge(edges, user, category) ==
    [e \in DOMAIN edges |->
        IF e = <<user, category>> THEN 1
        ELSE IF e[1] = user THEN 0
        ELSE edges[e]]

\* MERGE (u)-[:POSTED_IN]->(c): match the relationships between the bound
\* nodes, create one only when there is none.
MergeEdge(edges, user, category) ==
    IF edges[<<user, category>>] = 0
    THEN [edges EXCEPT ![<<user, category>>] = 1]
    ELSE edges

\* Faulty variant of RunQuery: the last MERGE does not bind c to the category of
\* the event, so the user is linked to every Category node.
RunQueryCross(g, user, category) ==
    LET cats == MergeNode(g.categories, category) IN
    [ users |-> MergeNode(g.users, user),
      categories |-> cats,
      edges |-> [e \in DOMAIN g.edges |->
                    IF e[1] = user /\ cats[e[2]] > 0 THEN 1 ELSE g.edges[e]] ]

\* Faulty variant of RunQuery: one MERGE over the whole pattern
\* (u:User {name})-[:POSTED_IN]->(c:Category {name}), which creates the two
\* nodes anew whenever the edge is not there yet.
RunQueryWholePattern(g, user, category) ==
    IF g.edges[<<user, category>>] > 0
    THEN g
    ELSE [ users |-> [g.users EXCEPT ![user] = @ + 1],
           categories |-> [g.categories EXCEPT ![category] = @ + 1],
           edges |-> [g.edges EXCEPT ![<<user, category>>] = 1] ]

\* The query of update_graph (lines 26-31) applied to graph g.
RunQuery(g, user, category) ==
    [ users |-> MergeNode(g.users, user),
      categories |-> MergeNode(g.categories, category),
      edges |-> MergeEdge(g.edges, user, category) ]

\* data['user'] and data['category'] (line 42) raise KeyError on a missing key.
HasKeys(d) == Keys \subseteq DOMAIN d

Init ==
    /\ stream = << >>
    /\ position = 0
    /\ pc = "driver"
    /\ data = << >>
    /\ session = 0
    /\ exc = "none"
    /\ retries = 0
    /\ tx = EmptyGraph
    /\ graph = EmptyGraph
    /\ out = << >>
    /\ trace = << >>
    /\ unreachable \in SUBSET {"store", "broker"}

\* The entry of the history that belongs to the message being handled.
SetResult(r) == [trace EXCEPT ![Len(trace)].result = r]

\* Lines 8-13: wait, then create the graph driver. No call checks that the
\* store answers: a driver that connects in its constructor raises on an
\* unreachable store (unhandled, the process ends), a driver that connects on
\* first use is created all the same.
ConnectDriver ==
    /\ pc = "driver"
    /\ IF "store" \in unreachable
       THEN \E eager \in BOOLEAN : pc' = IF eager THEN "dead" ELSE "consumer"
       ELSE pc' = "consumer"
    /\ UNCHANGED <<stream, position, data, session, exc, retries, tx, graph, out, trace,
                   unreachable>>

\* Faulty variant of ConnectConsumer: the constructor is wrapped in a handler
\* that logs the failure and goes on to the loop.
ConnectConsumerSwallow ==
    /\ pc = "consumer"
    /\ pc' = "pull"
    /\ out' = << <<"Started">> >>
    /\ UNCHANGED <<stream, position, data, session, exc, retries, tx, graph, trace,
                   unreachable>>

\* Lines 16-22 and 34: create the consumer, which contacts the bootstrap
\* broker; with no broker it raises, unhandled.
ConnectConsumer ==
    /\ pc = "consumer"
    /\ IF "broker" \in unreachable
       THEN /\ pc' = "dead"
            /\ out' = out
       ELSE /\ pc' = "pull"
            /\ out' = << <<"Started">> >>
    /\ UNCHANGED <<stream, position, data, session, exc, retries, tx, graph, trace,
                   unreachable>>

\* Faulty variant of Pull: the write is handed to a background task and the
\* next record is taken while the commit is still outstanding.
PullWhileCommitting ==
    /\ pc \in {"pull", "commit"}
    /\ position < MaxStream
    /\ \E message \in Payloads :
         /\ position < Len(stream) => message = stream[position + 1]
         /\ stream' = IF position < Len(stream) THEN stream ELSE Append(stream, message)
         /\ position' = position + 1
         /\ IF Decodes(message)
            THEN /\ data' = value_deserializer(message)
                 /\ out' = << <<"Received Event", data'>> >>
                 /\ pc' = "session"
                 /\ trace' = Append(trace, [msg |-> position + 1, before |-> graph,
                                            writes |-> 0, result |-> "pending"])
            ELSE /\ data' = data
                 /\ out' = << >>
                 /\ pc' = "dead"
                 /\ trace' = Append(trace, [msg |-> position + 1, before |-> graph,
                                            writes |-> 0, result |-> "crash"])
    /\ UNCHANGED <<session, exc, retries, tx, graph, unreachable>>

\* Lines 36-38: the iterator yields the record at the consumer's position
\* (a record fetched before if the position is behind the fetched records,
\* otherwise the next record of the topic, whatever its payload) and moves
\* the position past it. The record is deserialized on the way: an exception
\* of the deserializer leaves the for statement, which is outside the try
\* block, and ends the process.
Pull ==
    /\ pc = "pull"
    /\ position < MaxStream
    /\ \E message \in Payloads :
         /\ position < Len(stream) => message = stream[position + 1]
         /\ stream' = IF position < Len(stream) THEN stream ELSE Append(stream, message)
         /\ position' = position + 1
         /\ IF Decodes(message)
            THEN /\ data' = value_deserializer(message)
                 /\ out' = << <<"Received Event", data'>> >>
                 /\ pc' = "session"
                 /\ trace' = Append(trace, [msg |-> position + 1, before |-> graph,
                                            writes |-> 0, result |-> "pending"])
            ELSE /\ data' = data
                 /\ out' = << >>
                 /\ pc' = "dead"
                 /\ trace' = Append(trace, [msg |-> position + 1, before |-> graph,
                                            writes |-> 0, result |-> "crash"])
    /\ UNCHANGED <<session, exc, retries, tx, graph, unreachable>>

\* Line 41: with driver.session() as session. The call builds the session
\* object; the connection is acquired by the transaction.
OpenSession ==
    /\ pc = "session"
    /\ session' = session + 1
    /\ pc' = "args"
    /\ UNCHANGED <<stream, position, data, exc, retries, tx, graph, out, trace, unreachable>>

\* Faulty variant of WriteTransaction: the User node is written on its own before
\* data['category'] is read.
WriteTransactionUserFirst ==
    /\ pc = "args"
    /\ IF HasKeys(data)
       THEN /\ pc' = "tx"
            /\ exc' = exc
            /\ trace' = [trace EXCEPT ![Len(trace)].writes = @ + 1]
            /\ graph' = graph
       ELSE /\ pc' = "close"
            /\ exc' = "KeyError"
            /\ trace' = trace
            /\ graph' = IF "user" \in DOMAIN data
                        THEN [graph EXCEPT !.users = MergeNode(@, data["user"])]
                        ELSE graph
    /\ retries' = 0
    /\ UNCHANGED <<stream, position, data, session, tx, out, unreachable>>

\* Line 42: the arguments are evaluated, then write_transaction is called.
WriteTransaction ==
    /\ pc = "args"
    /\ IF HasKeys(data)
       THEN /\ pc' = "tx"
            /\ exc' = exc
            /\ trace' = [trace EXCEPT ![Len(trace)].writes = @ + 1]
       ELSE /\ pc' = "close"
            /\ exc' = "KeyError"
            /\ trace' = trace
    /\ retries' = 0
    /\ UNCHANGED <<stream, position, data, session, tx, graph, out, unreachable>>

\* A failure inside write_transaction: the driver re-runs the transaction
\* function on a transient error while its retry budget lasts, otherwise
\* the error is raised to the caller. The transaction is rolled back.
TxFailure ==
    /\ \E transient \in BOOLEAN :
          IF transient /\ retries < MaxRetries
          THEN /\ retries' = retries + 1
               /\ pc' = "tx"
               /\ exc' = exc
          ELSE /\ retries' = 0
               /\ pc' = "close"
               /\ exc' = "Neo4jError"
    /\ tx' = graph

\* Faulty variant of update_graph: the print of line 32 is missing.
update_graph_silent ==
    /\ pc = "tx"
    /\ \/ /\ tx' = RunQuery(graph, data["user"], data["category"])
          /\ out' = out
          /\ pc' = "commit"
          /\ UNCHANGED <<exc, retries>>
       \/ /\ TxFailure
          /\ out' = out
    /\ UNCHANGED <<stream, position, data, session, graph, trace, unreachable>>

\* Lines 24-32: the transaction function. tx.run raises, or the query runs
\* inside the transaction and the line 'Graph Updated' is printed.
update_graph ==
    /\ pc = "tx"
    /\ \/ /\ tx' = RunQuery(graph, data["user"], data["category"])
          /\ out' = Append(out, <<"Graph Updated", data["user"], data["category"]>>)
          /\ pc' = "commit"
          /\ UNCHANGED <<exc, retries>>
       \/ /\ TxFailure
          /\ out' = out
    /\ UNCHANGED <<stream, position, data, session, graph, trace, unreachable>>

\* Faulty variant of Commit: the three merges are not one transaction, a failure
\* leaves the User node behind.
CommitNotAtomic ==
    /\ pc = "commit"
    /\ \/ /\ graph' = tx
          /\ pc' = "close"
          /\ trace' = SetResult("ok")
          /\ retries' = 0
          /\ UNCHANGED <<exc, tx>>
       \/ /\ TxFailure
          /\ graph' = [graph EXCEPT !.users = tx.users]
          /\ UNCHANGED trace
    /\ UNCHANGED <<stream, position, data, session, out, unreachable>>

\* End of write_transaction: the commit of the transaction.
Commit ==
    /\ pc = "commit"
    /\ \/ /\ graph' = tx
          /\ pc' = "close"
          /\ trace' = SetResult("ok")
          /\ retries' = 0
          /\ UNCHANGED <<exc, tx>>
       \/ /\ TxFailure
          /\ UNCHANGED <<graph, trace>>
    /\ UNCHANGED <<stream, position, data, session, out, unreachable>>

\* Faulty variant of CloseSession: session.close() after the write instead of a
\* with block, skipped when the write raises.
CloseSessionOnSuccess ==
    /\ pc = "close"
    /\ session' = IF exc = "none" THEN session - 1 ELSE session
    /\ pc' = IF exc = "none" THEN "pull" ELSE "except"
    /\ UNCHANGED <<stream, position, data, exc, retries, tx, graph, out, trace, unreachable>>

\* Line 41, leaving the with block: the session is closed on every path.
CloseSession ==
    /\ pc = "close"
    /\ session' = session - 1
    /\ pc' = IF exc = "none" THEN "pull" ELSE "except"
    /\ UNCHANGED <<stream, position, data, exc, retries, tx, graph, out, trace, unreachable>>

\* Faulty variant of Except: the handler catches the errors of the driver only, a
\* KeyError is unhandled.
ExceptDriverErrorsOnly ==
    /\ pc = "except"
    /\ out' = IF exc = "KeyError" THEN out ELSE Append(out, <<"Neo4j Error", exc>>)
    /\ trace' = SetResult(exc)
    /\ exc' = "none"
    /\ pc' = IF exc = "KeyError" THEN "dead" ELSE "pull"
    /\ UNCHANGED <<stream, position, data, session, retries, tx, graph, unreachable>>

\* Faulty variant of Except: the handler seeks back to the record whose write
\* failed, so that the record is delivered again.
ExceptSeekBack ==
    /\ pc = "except"
    /\ out' = Append(out, <<"Neo4j Error", exc>>)
    /\ trace' = SetResult(exc)
    /\ exc' = "none"
    /\ pc' = "pull"
    /\ position' = IF trace[Len(trace)].writes > 0 THEN position - 1 ELSE position
    /\ UNCHANGED <<stream, data, session, retries, tx, graph, unreachable>>

\* Lines 43-44: except Exception: print, then the next iteration.
Except ==
    /\ pc = "except"
    /\ out' = Append(out, <<"Neo4j Error", exc>>)
    /\ trace' = SetResult(exc)
    /\ exc' = "none"
    /\ pc' = "pull"
    /\ UNCHANGED <<stream, position, data, session, retries, tx, graph, unreachable>>

Next ==
    \/ ConnectDriver
    \/ ConnectConsumer
    \/ Pull
    \/ OpenSession
    \/ WriteTransaction
    \/ update_graph
    \/ Commit
    \/ CloseSession
    \/ Except

Spec == Init /\ [][Next]_vars

\* The two states of the process named by its design, and termination.
Phase ==
    CASE pc \in {"driver", "consumer"} -> "CONNECTING"
      [] pc = "dead" -> "TERMINATED"
      [] OTHER -> "RUNNING"

\* ------------------------------------------------- history of iterations
Iterations == 1..Len(trace)
\* The object iteration i handled (the empty function for a non-JSON record).
Ev(i) == stream[trace[i].msg].obj
IsJson(i) == stream[trace[i].msg].json
\* The committed graph when iteration i was over.
After(i) == IF i < Len(trace) THEN trace[i + 1].before ELSE graph
\* The iterations whose write of the event (u, c) was committed.
Applied(u, c) == { i \in Iterations : trace[i].result = "ok" /\ Ev(i) = Event(u, c) }
AppliedEvents == { Ev(i) : i \in { j \in Iterations : trace[j].result = "ok" } }
LacksKey(i) == IsJson(i) /\ ~HasKeys(Ev(i))
\* Iteration i called write_transaction and the call raised.
WriteFailed(i) == trace[i].result = "Neo4jError"

\* ------------------------------------------------------------------ claims

\* C1 (idempotence): once the event (u, c) has been applied N >= 1 times the
\* graph holds exactly one User node u, one Category node c and one POSTED_IN
\* edge u -> c, and every application after the first left the graph as it
\* found it.
C1_Idempotence ==
    \A u \in UserNames, c \in CategoryNames :
        Applied(u, c) # {} =>
            /\ graph.users[u] = 1
            /\ graph.categories[c] = 1
            /\ graph.edges[<<u, c>>] = 1
            /\ \A i \in Applied(u, c) :
                   (\E j \in Applied(u, c) : j < i) => After(i) = trace[i].before

C1_Witness ==
    \E u \in UserNames, c \in CategoryNames : Cardinality(Applied(u, c)) >= 2

\* C2 (isolation): from the empty graph, when the events applied are (u1, c1)
\* and (u2, c2) with u1 # u2 and c1 # c2, the graph holds exactly the two User
\* nodes, the two Category nodes and the two edges u1 -> c1 and u2 -> c2, and
\* no edge u1 -> c2 or u2 -> c1.
C2_Isolation ==
    \A u1 \in UserNames, u2 \in UserNames, c1 \in CategoryNames, c2 \in CategoryNames :
        (u1 # u2 /\ c1 # c2 /\ AppliedEvents = {Event(u1, c1), Event(u2, c2)}) =>
            /\ graph.users = [u \in UserNames |-> IF u \in {u1, u2} THEN 1 ELSE 0]
            /\ graph.categories = [c \in CategoryNames |-> IF c \in {c1, c2} THEN 1 ELSE 0]
            /\ graph.edges = [e \in UserNames \X CategoryNames |->
                                IF e \in {<<u1, c1>>, <<u2, c2>>} THEN 1 ELSE 0]
            /\ graph.edges[<<u1, c2>>] = 0
            /\ graph.edges[<<u2, c1>>] = 0

C2_Witness ==
    \E u1 \in UserNames, u2 \in UserNames, c1 \in CategoryNames, c2 \in CategoryNames :
        /\ u1 # u2
        /\ c1 # c2
        /\ AppliedEvents = {Event(u1, c1), Event(u2, c2)}

\* C3 (ordering): when (u, c1) and later (u, c2), c1 # c2, were both written,
\* the graph holds a single User node u and both edges u -> c1 and u -> c2.
C3_Ordering ==
    \A u \in UserNames, c1 \in CategoryNames, c2 \in CategoryNames :
        (c1 # c2 /\ \E i \in Applied(u, c1), j \in Applied(u, c2) : i < j) =>
            /\ graph.users[u] = 1
            /\ graph.edges[<<u, c1>>] = 1
            /\ graph.edges[<<u, c2>>] = 1

C3_Witness ==
    \E u \in UserNames, c1 \in CategoryNames, c2 \in CategoryNames :
        /\ c1 # c2
        /\ \E i \in Applied(u, c1), j \in Applied(u, c2) : i < j

\* C4 (malformed input): an iteration whose decoded event lacks 'user' or
\* 'category' leaves the committed graph as it was when the message was taken,
\* at every point of the iteration and at its end.
C4_MalformedLeavesGraph ==
    \A i \in Iterations : LacksKey(i) => After(i) = trace[i].before

C4_Witness ==
    \E i \in Iterations :
        /\ LacksKey(i)
        /\ "user" \in DOMAIN Ev(i)
        /\ trace[i].result = "KeyError"
        /\ trace[i].before # EmptyGraph

\* C5 (missing key is recoverable): a message whose event lacks a key never
\* stops the loop, gets no write, is taken from the stream once, ends as a
\* caught error, and the record after it is the next one taken.
C5_MissingKeyRecoverable ==
    \A i \in Iterations :
        LacksKey(i) =>
            /\ trace[i].writes = 0
            /\ \A j \in Iterations : j # i => trace[j].msg # trace[i].msg
            /\ i = Len(trace) =>
                  /\ pc \in {"session", "args", "close", "except", "pull"}
                  /\ (pc = "pull" /\ position < MaxStream) => ENABLED Pull
            /\ i < Len(trace) =>
                  /\ trace[i].result = "KeyError"
                  /\ trace[i + 1].msg = trace[i].msg + 1

C5_Witness ==
    \E i \in Iterations :
        /\ LacksKey(i)
        /\ trace[i].result = "KeyError"
        /\ i < Len(trace)
        /\ trace[i + 1].result = "ok"

\* C6 (undecodable payload is recoverable): a record whose payload is not
\* JSON does not stop the loop.
C6_UndecodableRecoverable ==
    \A i \in Iterations : ~IsJson(i) => pc # "dead"

\* C7 (write failure recovery): when the write of one message failed and the
\* write of the next message succeeded, the failed write left the graph
\* untouched and the next message was written once, with the result its upsert
\* gives on the graph as it was before the failed message.
C7_WriteFailureRecovery ==
    \A i \in Iterations :
        (i < Len(trace) /\ WriteFailed(i) /\ trace[i + 1].result = "ok") =>
            /\ trace[i + 1].msg = trace[i].msg + 1
            /\ trace[i + 1].writes = 1
            /\ After(i) = trace[i].before
            /\ After(i + 1) = RunQuery(trace[i].before, Ev(i + 1)["user"], Ev(i + 1)["category"])

C7_Witness ==
    \E i \in Iterations :
        /\ i < Len(trace)
        /\ WriteFailed(i)
        /\ trace[i + 1].result = "ok"
        /\ Ev(i + 1) # Ev(i)
        /\ After(i + 1) # trace[i].before

\* C8 (no retry of a failed write): every message is taken from the stream
\* once and gets at most one call of write_transaction, the position is past
\* every message taken whatever its outcome, and the edge of an event whose
\* write failed is in the graph only if another message carrying the same
\* pair was written.
C8_FailedWriteNotRetried ==
    /\ position = Len(trace)
    /\ \A i \in Iterations :
          /\ trace[i].msg = i
          /\ trace[i].writes <= 1
          /\ (WriteFailed(i) /\ graph.edges[<<Ev(i)["user"], Ev(i)["category"]>>] > 0) =>
                \E j \in Iterations : j # i /\ Ev(j) = Ev(i) /\ trace[j].result = "ok"

C8_Witness ==
    \E i \in Iterations :
        /\ WriteFailed(i)
        /\ i < Len(trace)
        /\ graph.edges[<<Ev(i)["user"], Ev(i)["category"]>>] = 0
        /\ graph # EmptyGraph

\* C9 (session scoping): at most one session is open, one is open exactly
\* between the entry and the exit of the with block, and none is open when
\* the loop takes the next message or handles the exception.
C9_SessionScoping ==
    /\ session \in {0, 1}
    /\ pc \in {"args", "tx", "commit", "close"} => session = 1
    /\ pc \in {"driver", "consumer", "pull", "session", "except", "dead"} => session = 0

C9_Witness ==
    /\ pc = "pull"
    /\ session = 0
    /\ \E i \in Iterations : trace[i].result = "ok"
    /\ \E i \in Iterations : trace[i].result = "KeyError"
    /\ \E i \in Iterations : WriteFailed(i)

\* C10 (no terminal state): once the process is RUNNING it stays RUNNING.
C10_RunningForever == [][Phase = "RUNNING" => Phase' = "RUNNING"]_vars

\* C11 as stated (startup failures are fatal): when the store or the broker is
\* unreachable at connection time the process never enters the pull loop: no
\* record is taken and no write is attempted.
C11_StartupFailureFatal ==
    unreachable # {} =>
        /\ Phase # "RUNNING"
        /\ position = 0
        /\ trace = << >>

\* C11 as amended: an unreachable broker, or an unreachable store that the
\* driver's constructor reports, ends the process before the loop: nothing is
\* taken from the stream, nothing is written, no session is opened and no
\* step follows (no reconnect). A process that ended before taking a record
\* ended on such a failure.
C11_StartupFailureFatalAmended ==
    /\ "broker" \in unreachable =>
          /\ Phase # "RUNNING"
          /\ position = 0
          /\ trace = << >>
    /\ (pc = "dead" /\ trace = << >>) =>
          /\ unreachable # {}
          /\ position = 0
          /\ stream = << >>
          /\ session = 0
          /\ graph = EmptyGraph
          /\ ~ENABLED Next

C11_Witness ==
    /\ pc = "dead"
    /\ trace = << >>
    /\ unreachable = {"broker"}
\* The iteration in progress, or the last one when the loop waits.
Last == Len(trace)
\* The positions of the console lines of the iteration that start with kind.
Lines(kind) == { k \in 1..Len(out) : out[k][1] = kind }

Contains(g2, g1) ==
    /\ \A u \in UserNames : g2.users[u] >= g1.users[u]
    /\ \A c \in CategoryNames : g2.categories[c] >= g1.categories[c]
    /\ \A e \in UserNames \X CategoryNames : g2.edges[e] >= g1.edges[e]
\* At most one node per name and type, at most one edge per pair.
UniqueNames(g) ==
    /\ \A u \in UserNames : g.users[u] <= 1
    /\ \A c \in CategoryNames : g.categories[c] <= 1
    /\ \A e \in UserNames \X CategoryNames : g.edges[e] <= 1

\* C13 (additive-only graph): no step of the process removes a node or an
\* edge from the committed graph, and in every state a name is carried by at
\* most one node of its type.
C13_AdditiveOnly == [][Contains(graph', graph) /\ UniqueNames(graph) /\ UniqueNames(graph')]_vars

C13_Witness ==
    /\ pc = "pull"
    /\ Last = MaxStream
    /\ \E i \in Iterations : WriteFailed(i)
    /\ \E i \in Iterations : LacksKey(i)
    /\ \E i \in Iterations : trace[i].result = "ok"
    /\ graph # EmptyGraph

\* The graph that holds one User node per user name, one Category node per
\* category name and one edge per pair of the events of the set E.
Projection(E) ==
    [ users |-> [u \in UserNames |-> IF \E e \in E : e["user"] = u THEN 1 ELSE 0],
      categories |-> [c \in CategoryNames |-> IF \E e \in E : e["category"] = c THEN 1 ELSE 0],
      edges |-> [p \in UserNames \X CategoryNames |-> IF Event(p[1], p[2]) \in E THEN 1 ELSE 0] ]

\* C14 (projection result): the committed graph is the projection of the set
\* of the events whose write succeeded, whatever their order and number.
C14_ProjectionResult == graph = Projection(AppliedEvents)

C14_Witness ==
    /\ pc = "pull"
    /\ Last = MaxStream
    /\ \A i \in Iterations : IsJson(i) /\ HasKeys(Ev(i))
    /\ \E i \in Iterations : WriteFailed(i) /\ Ev(i) \notin AppliedEvents
    /\ \E i \in Iterations, j \in Iterations :
          i < j /\ trace[i].result = "ok" /\ trace[j].result = "ok"
\* C15 (one message in flight): every message but the last one taken has its
\* outcome (written, or failed) before the next one is taken, messages are
\* taken and so written in offset order, and the loop is back at the iterator
\* only with the outcome of its message settled.
C15_OneInFlight ==
    /\ \A i \in Iterations :
          i < Last =>
              /\ trace[i].result \in {"ok", "KeyError", "Neo4jError"}
              /\ trace[i].msg < trace[i + 1].msg
    /\ pc \in {"session", "args", "tx", "commit"} =>
          (Last > 0 /\ trace[Last].result = "pending")
    /\ (pc = "pull" /\ Last > 0) => trace[Last].result \in {"ok", "KeyError", "Neo4jError"}

C15_Witness ==
    /\ pc = "commit"
    /\ Last = MaxStream
    /\ \A i \in Iterations : trace[i].writes = 1
    /\ WriteFailed(1)
\* The event of iteration i is in the graph: its User node, its Category node
\* and the edge between them.
InGraph(i) ==
    /\ graph.users[Ev(i)["user"]] > 0
    /\ graph.categories[Ev(i)["category"]] > 0
    /\ graph.edges[<<Ev(i)["user"], Ev(i)["category"]>>] > 0

\* C16 (progress): with the services reachable, the process comes to rest
\* only when every record of the topic has been handed to the loop, and then
\* every well-formed event whose write did not fail is in the graph.
C16_Progress ==
    (unreachable = {} /\ ~ENABLED Next) =>
        /\ position = MaxStream
        /\ \A i \in Iterations :
              /\ trace[i].result # "crash"
              /\ (IsJson(i) /\ HasKeys(Ev(i)) /\ ~WriteFailed(i)) => InGraph(i)
\* C17 (no partial upsert): in every state every User node has an outgoing
\* POSTED_IN edge and every Category node an incoming one, the graph is
\* untouched while a write is not committed, and a write that failed left
\* the graph as it was when its message was taken.
C17_NoPartialUpsert ==
    /\ \A u \in UserNames :
          graph.users[u] > 0 => \E c \in CategoryNames : graph.edges[<<u, c>>] > 0
    /\ \A c \in CategoryNames :
          graph.categories[c] > 0 => \E u \in UserNames : graph.edges[<<u, c>>] > 0
    /\ \A i \in Iterations :
          (WriteFailed(i) \/ trace[i].result = "pending") => After(i) = trace[i].before

C17_Witness ==
    /\ pc = "pull"
    /\ Last >= 2
    /\ WriteFailed(Last)
    /\ Lines("Graph Updated") # {}
    /\ graph # EmptyGraph
    /\ graph.users[Ev(Last)["user"]] = 0

\* C18 (log faithfulness): when the iteration of a message with a write
\* attempt is over, a 'Graph Updated' line was printed only if the write was
\* committed, and exactly one line among 'Graph Updated' and 'Neo4j Error'
\* was printed for the message.
C18_LogFaithful ==
    (pc = "pull" /\ Last > 0 /\ trace[Last].writes > 0) =>
        /\ Lines("Graph Updated") # {} => trace[Last].result = "ok"
        /\ Cardinality(Lines("Graph Updated") \cup Lines("Neo4j Error")) = 1
====
